---- MODULE Spec2Model ----
(***************************************************************************)
(* State-machine model of llm.embeddings.Collection (src/llm/embeddings.py)*)
(* over one sqlite database: the `collections` and `embeddings` tables,    *)
(* the connection's registered distance_score function and the Collection  *)
(* handles (Python objects) that callers hold.                             *)
(***************************************************************************)
EXTENDS Integers, Sequences, FiniteSets, Bags, TLC

\* ------------------------------------------------------------------ bounds
\* Number of Collection objects constructed (or under construction).
MaxHandles == 2
\* Number of rows the embeddings table may hold.
MaxEmbeddings == 2

\* ------------------------------------------------------------------ values
\* Python's Optional[...]: None is the empty tuple, a value x is <<x>>.
None == <<>>
Some(x) == <<x>>

\* Collection names, record ids (the empty string is a legal str), texts.
Names == {"X", "Y"}
RecordIds == {"", "a"}
Texts == {"t1", "t2"}

\* Model identifiers. "m1" is known to the registry, which hands out its
\* model; "m2" is not: it is the model_id of a model object the caller built.
ModelIds == {"m1", "m2"}
Registered == {"m1"}
ModelInstances == {[model_id |-> m] : m \in ModelIds}
CallerModel == [model_id |-> "m2"]

\* The constructor's keyword arguments model= and model_id=.
ModelArgs == {None, Some(CallerModel)}
ModelIdArgs == {None} \cup {Some(m) : m \in ModelIds}

\* The constructor calls made: every combination for "X", one for "Y", and
\* one with the empty string as model_id (a str, and falsy).
CtorCalls ==
    {[name |-> "X", model |-> m, model_id |-> i] : m \in ModelArgs, i \in ModelIdArgs}
    \cup {[name |-> "Y", model |-> Some(CallerModel), model_id |-> None]}
    \cup {[name |-> "X", model |-> Some(CallerModel), model_id |-> Some("")]}

\* metadata= arguments: None, {} and {"k": "v"}; a dict is a tuple of pairs.
EmptyDict == <<>>
DictKV == << <<"k", "v">> >>
MetadataArgs == {None, Some(EmptyDict), Some(DictKV)}

\* The (text, metadata, store) combinations embed is called with.
EmbedArgs ==
    { [text |-> "t1", metadata |-> None, store |-> FALSE],
      [text |-> "t2", metadata |-> Some(DictKV), store |-> TRUE],
      [text |-> "t1", metadata |-> Some(EmptyDict), store |-> FALSE] }

\* The id_text_map / id_text_metadata_map arguments of the embed_multi
\* calls: a dict is a tuple of (key, value) pairs.
EmbedMultiCalls ==
    { [id_text_map |-> <<>>, store |-> FALSE],
      [id_text_map |-> << <<"a", "t1">> >>, store |-> TRUE] }
EmbedMultiWithMetadataCalls ==
    { [id_text_metadata_map |-> <<>>],
      [id_text_metadata_map |-> << <<"a", <<"t1", DictKV>> >> >>] }

\* Query vectors and the number= arguments of the similar* calls.
Vectors == { <<1, 0>>, <<0, 0>> }
Numbers == {-1, 0, 1}
SkipIds == {None} \cup {Some(i) : i \in RecordIds}

\* The similar_by_vector calls made: the unit vector with every number and
\* skip_id, the zero vector (whose cosine divides by zero) without skip_id.
SearchCalls ==
    {[vector |-> <<1, 0>>, number |-> n, skip_id |-> k] : n \in Numbers, k \in SkipIds}
    \cup {[vector |-> <<0, 0>>, number |-> n, skip_id |-> None] : n \in Numbers}

\* ------------------------------------------------------------------ state
VARIABLES
    tables,          \* TRUE once the migrations created the two tables
    collections,     \* rows of table collections: [id, name, model]
    embeddings,      \* rows of table embeddings
    handles,         \* bag of the Collection objects (their fields)
    distance_score,  \* query vector captured by the registered SQL function
    running,         \* bag of the similar_by_vector calls between their steps
    last             \* the call that just ran: operation, arguments, outcome

vars == <<tables, collections, embeddings, handles, distance_score, running, last>>

\* No call is running: the caller is between two calls.
NoCall ==
    [op |-> "none", self |-> None, name |-> "", args |-> <<>>, status |-> "ok",
     value |-> <<>>]

Call(op, self, name, args, status, value) ==
    [op |-> op, self |-> self, name |-> name, args |-> args, status |-> status,
     value |-> value]

Init ==
    /\ tables = FALSE
    /\ collections = {}
    /\ embeddings = {}
    /\ handles = EmptyBag
    /\ distance_score = None
    /\ running = EmptyBag
    /\ last = NoCall

\* ------------------------------------------------- collaborators and schema
\* llm.encode: struct.pack("<" + "f" * len(values), *values); each element
\* becomes its 4 little-endian IEEE-754 single-precision bytes.
float32_bytes(x) ==
    CASE x = 0 -> <<0, 0, 0, 0>>
      [] x = 1 -> <<0, 0, 128, 63>>
      [] x = -1 -> <<0, 0, 128, 191>>
      [] x = 3 -> <<0, 0, 64, 64>>
      [] x = 4 -> <<0, 0, 128, 64>>

RECURSIVE encode(_)
encode(values) ==
    IF values = <<>> THEN <<>>
    ELSE float32_bytes(Head(values)) \o encode(Tail(values))

\* struct.unpack of one "f": the single-precision value of 4 bytes.
float32_value(b) ==
    CASE b = <<0, 0, 0, 0>> -> 0
      [] b = <<0, 0, 128, 63>> -> 1
      [] b = <<0, 0, 128, 191>> -> -1
      [] b = <<0, 0, 64, 64>> -> 3
      [] b = <<0, 0, 128, 64>> -> 4

\* llm.decode: struct.unpack over the blob, 4 bytes per element.
RECURSIVE decode(_)
decode(binary) ==
    IF binary = <<>> THEN <<>>
    ELSE <<float32_value(SubSeq(binary, 1, 4))>>
         \o decode(SubSeq(binary, 5, Len(binary)))

\* llm.cosine_similarity(a, b) = dot(a, b) / (|a| * |b|). The vectors used
\* have magnitude 0, 1 or 5, so the score is carried exactly as the integer
\* 25 * cosine. A zero magnitude divides by zero (no score).
dot_product(a, b) == a[1] * b[1] + a[2] * b[2]
magnitude(a) == CHOOSE n \in 0..5 : n * n = dot_product(a, a)
cosine_defined(a, b) == magnitude(a) * magnitude(b) # 0
cosine_similarity(a, b) ==
    (25 * dot_product(a, b)) \div (magnitude(a) * magnitude(b))

\* EmbeddingModel.embed(text): the vector a model computes for a text.
model_embed(model, text) ==
    CASE model.model_id = "m1" /\ text = "t1" -> <<1, 0>>
      [] model.model_id = "m1" /\ text = "t2" -> <<3, 4>>
      [] model.model_id = "m2" /\ text = "t1" -> <<3, 4>>
      [] model.model_id = "m2" /\ text = "t2" -> <<1, 0>>

\* llm.get_embedding_model(name): the model registered under that id; None
\* stands for UnknownModelError (also raised for name = None).
get_embedding_model(model_id) ==
    IF model_id # None /\ model_id[1] \in Registered
    THEN Some([model_id |-> model_id[1]])
    ELSE None

\* json.dumps of the metadata dicts used.
json_dumps(d) == IF d = EmptyDict THEN "{}" ELSE "{\"k\": \"v\"}"

\* Python truthiness of an Optional[str] / Optional[dict] argument.
truthy_str(s) == s # None /\ s[1] # ""
truthy_dict(d) == d # None /\ d[1] # EmptyDict

\* Variant: a collections table without the unique index on name.
unique_name_missing(rows, row) == TRUE

\* Schema created by embeddings_migrations: collections(id PK, name UNIQUE,
\* model); embeddings(..., PRIMARY KEY (collection_id, id)).
unique_name(rows, row) == \A r \in rows : r.name # row.name

primary_key(rows, row) ==
    \A r \in rows : ~(r.collection_id = row.collection_id /\ r.id = row.id)

\* The integer primary key sqlite assigns to a new collections row.
next_rowid(rows) ==
    IF rows = {} THEN 1
    ELSE 1 + (CHOOSE m \in {r.id : r \in rows} : \A r \in rows : r.id <= m)

\* ------------------------------------------------------- Collection methods
\* __init__, line 30: model and model_id are both given and disagree.
model_id_mismatch(model, model_id) ==
    model # None /\ truthy_str(model_id) /\ model[1].model_id # model_id[1]

\* __init__, lines 28-34: the object's fields before id() runs.
new_collection(name, model, model_id) ==
    [pc |-> "init", name |-> name, _model |-> model, _model_id |-> model_id,
     _id |-> None]

\* Variant: model() falls back to a registered model when none is known.
model_with_default(self) ==
    IF self._model # None
    THEN [ok |-> TRUE, self |-> self, model |-> self._model]
    ELSE LET found == get_embedding_model(self._model_id)
             default == Some([model_id |-> "m1"])
         IN  IF found = None
             THEN [ok |-> TRUE, self |-> [self EXCEPT !._model = default],
                   model |-> default]
             ELSE [ok |-> TRUE, self |-> [self EXCEPT !._model = found],
                   model |-> found]

\* model(): the bound model, else the registry's model for _model_id, which
\* is then cached in _model; ok = FALSE stands for the ValueError.
model(self) ==
    IF self._model # None
    THEN [ok |-> TRUE, self |-> self, model |-> self._model]
    ELSE LET found == get_embedding_model(self._model_id)
         IN  IF found = None
             THEN [ok |-> FALSE, self |-> self, model |-> None]
             ELSE [ok |-> TRUE, self |-> [self EXCEPT !._model = found],
                   model |-> found]

\* Variant: the lookup writes the caller's model_id over the stored one.
id_lookup_overwrite(self, rows) ==
    LET found == {r \in rows : r.name = self.name}
    IN  IF found = {}
        THEN [found |-> FALSE, self |-> self, rows |-> rows]
        ELSE LET row == CHOOSE r \in found : \A o \in found : r.id <= o.id
                 kept == IF self._model_id = None THEN row.model
                         ELSE self._model_id[1]
             IN  [found |-> TRUE,
                  self |-> [self EXCEPT !._id = Some(row.id),
                                        !._model_id = Some(kept)],
                  rows |-> (rows \ {row}) \cup {[row EXCEPT !.model = kept]}]

\* Variant: the lookup path resolves the model as the creation path does.
id_lookup_resolving(self, rows) ==
    LET found == {r \in rows : r.name = self.name}
    IN  IF found = {}
        THEN [found |-> FALSE, self |-> self, rows |-> rows]
        ELSE LET row == CHOOSE r \in found : \A o \in found : r.id <= o.id
                 taken == [self EXCEPT
                      !._id = Some(row.id),
                      !._model_id = IF @ = None THEN Some(row.model) ELSE @]
             IN  IF model(taken).ok
                 THEN [found |-> TRUE, self |-> model(taken).self, rows |-> rows]
                 ELSE [found |-> FALSE, self |-> self, rows |-> rows]

\* id(), lines 65-70: look the row up by name; when found take its id, and
\* its model only if no model_id was given. The table is only read.
id_lookup(self, rows) ==
    LET found == {r \in rows : r.name = self.name}
    IN  IF found = {}
        THEN [found |-> FALSE, self |-> self, rows |-> rows]
        ELSE LET row == CHOOSE r \in found : \A o \in found : r.id <= o.id
             IN  [found |-> TRUE,
                  self |-> [self EXCEPT
                      !._id = Some(row.id),
                      !._model_id = IF @ = None THEN Some(row.model) ELSE @],
                  rows |-> rows]

\* Variant: the creation path takes the next id without inserting the row.
id_create_without_row(self, rows) ==
    LET m == model(self)
    IN  IF ~m.ok
        THEN [status |-> "ValueError", self |-> self, rows |-> rows]
        ELSE [status |-> "ok",
              self |-> [m.self EXCEPT !._id = Some(next_rowid(rows))],
              rows |-> rows]

\* id(), lines 71-82: no row was found; resolve the model, then insert the
\* row and take its primary key.
id_create(self, rows) ==
    LET m == model(self)
    IN  IF ~m.ok
        THEN [status |-> "ValueError", self |-> self, rows |-> rows]
        ELSE LET row == [id |-> next_rowid(rows), name |-> self.name,
                         model |-> m.model[1].model_id]
             IN  IF ~unique_name(rows, row)
                 THEN [status |-> "IntegrityError", self |-> self,
                       rows |-> rows]
                 ELSE [status |-> "ok",
                       self |-> [m.self EXCEPT !._id = Some(row.id)],
                       rows |-> rows \cup {row}]

\* Variant: exists() compares the wrong column.
exists_by_model(name, rows) == \E r \in rows : r.model = name

\* exists(): select 1 from collections where name = ?
exists(name, rows) == \E r \in rows : r.name = name

\* Variant: count() without the collection_id condition.
count_all(name, rows, embs) == Cardinality(embs)

\* count(): select count(*) from embeddings where collection_id =
\* (select id from collections where name = ?)
count(name, rows, embs) ==
    Cardinality({e \in embs :
        \E r \in rows : r.name = name /\ e.collection_id = r.id})

\* Variant: the text is stored whatever store says, and an empty dict is
\* serialized.
embedding_row_storing(self, id, text, metadata, store, vector) ==
    [collection_id |-> self._id[1],
     id |-> id,
     embedding |-> encode(vector),
     content |-> Some(text),
     metadata |-> IF metadata # None THEN Some(json_dumps(metadata[1])) ELSE None]

\* embed(), lines 131-139: the row handed to insert.
embedding_row(self, id, text, metadata, store, vector) ==
    [collection_id |-> self._id[1],
     id |-> id,
     embedding |-> encode(vector),
     content |-> IF store THEN Some(text) ELSE None,
     metadata |-> IF truthy_dict(metadata) THEN Some(json_dumps(metadata[1]))
                  ELSE None]

\* Variant: embed() inserts with replace=True.
insert_embedding_replace(embs, row) ==
    [status |-> "ok",
     rows |-> {e \in embs : ~(e.collection_id = row.collection_id /\ e.id = row.id)}
              \cup {row}]

\* Variant: a duplicate key evicts the row held before the call fails.
insert_embedding_evicting(embs, row) ==
    IF primary_key(embs, row)
    THEN [status |-> "ok", rows |-> embs \cup {row}]
    ELSE [status |-> "IntegrityError",
          rows |-> {e \in embs :
                       ~(e.collection_id = row.collection_id /\ e.id = row.id)}]

\* Table.insert of embed(): a plain insert, refused by the primary key.
insert_embedding(embs, row) ==
    IF primary_key(embs, row)
    THEN [status |-> "ok", rows |-> embs \cup {row}]
    ELSE [status |-> "IntegrityError", rows |-> embs]

\* Variant: embed_multi returns None without raising.
embed_multi_returns(self, id_text_map, store, embs) ==
    [status |-> "ok", rows |-> embs]

\* embed_multi, lines 141-148: the body is `raise NotImplementedError`.
embed_multi(self, id_text_map, store, embs) ==
    [status |-> "NotImplementedError", rows |-> embs]

\* embed_multi_with_metadata, lines 150-159: `raise NotImplementedError`.
embed_multi_with_metadata(self, id_text_metadata_map, embs) ==
    [status |-> "NotImplementedError", rows |-> embs]

\* Variant: the where clause without the collection_id condition.
where_rows_any_collection(embs, collection_id, skip_id) ==
    {e \in embs : truthy_str(skip_id) => e.id # skip_id[1]}

\* similar_by_vector, lines 181-186: the where clause. The id is bound as
\* str(self.id()); sqlite compares it to the integer column by value.
where_rows(embs, collection_id, skip_id) ==
    {e \in embs :
        /\ e.collection_id = collection_id
        /\ truthy_str(skip_id) => e.id # skip_id[1]}

\* distance_score(other_encoded), lines 175-177, for the captured vector.
score(other_encoded, vector) == cosine_similarity(decode(other_encoded), vector)

\* Variant: the limit is one too large.
sql_limit_plus_one(f, number) ==
    IF number < 0 \/ number + 1 >= Len(f) THEN f ELSE SubSeq(f, 1, number + 1)

\* sqlite's LIMIT: a negative limit is no limit.
sql_limit(f, number) ==
    IF number < 0 \/ number >= Len(f) THEN f ELSE SubSeq(f, 1, number)

\* similar_by_vector, lines 188-202: the outcomes of the query run with the
\* registered function's vector. Rows of equal score come in any order. A
\* score that divides by zero fails the query; under LIMIT 0 sqlite may not
\* evaluate any row.
query(embs, collection_id, skip_id, number, vector) ==
    LET rows == where_rows(embs, collection_id, skip_id)
        n == Cardinality(rows)
        failed == [status |-> "OperationalError", value |-> <<>>]
    IN  IF \E e \in rows : ~cosine_defined(decode(e.embedding), vector)
        THEN IF number = 0
             THEN {failed, [status |-> "ok", value |-> <<>>]}
             ELSE {failed}
        ELSE LET sc == [e \in rows |-> score(e.embedding, vector)]
                 ranked == {f \in [1..n -> rows] :
                     /\ \A i, j \in 1..n : i # j => f[i] # f[j]
                     /\ \A i \in 1..n : i < n => sc[f[i]] >= sc[f[i + 1]]}
             IN  {[status |-> "ok",
                   value |-> sql_limit([i \in 1..n |-> <<f[i].id, sc[f[i]]>>],
                                       number)] : f \in ranked}

\* Variant: the record is looked up by id alone, in any collection.
matches_any_collection(embs, collection_id, id) == {e \in embs : e.id = id}

\* similar_by_id, lines 217-221: the rows of this collection with that id.
matches(embs, collection_id, id) ==
    {e \in embs : e.collection_id = collection_id /\ e.id = id}

\* ------------------------------------------------------------------ actions
\* The objects callers hold, and the bag with one object added or replaced.
Objects == {h \in BagToSet(handles) : h.pc = "ready"}
Added(h) == handles (+) SetToBag({h})
Replaced(h, g) == (handles (-) SetToBag({h})) (+) SetToBag({g})
Idle == last.op = "none"
CtorArgs(m, model_id) == [model |-> m, model_id |-> model_id]

\* Collection(db, name, model=..., model_id=...): __init__ with its call of
\* id() run as a whole. A constructor that raises leaves no object.
Construct(name, m, model_id) ==
    /\ Idle
    /\ BagCardinality(handles) < MaxHandles
    /\ IF model_id_mismatch(m, model_id)
       THEN /\ last' = Call("__init__", None, name, CtorArgs(m, model_id),
                            "ValueError", None)
            /\ UNCHANGED <<tables, collections, handles>>
       ELSE LET self == new_collection(name, m, model_id)
                looked == id_lookup(self, collections)
                created == id_create(self, collections)
                done == [(IF looked.found THEN looked.self ELSE created.self)
                            EXCEPT !.pc = "ready"]
            IN  /\ tables' = TRUE
                /\ IF looked.found
                   THEN /\ handles' = Added(done)
                        /\ last' = Call("__init__", Some(done), name,
                                        CtorArgs(m, model_id), "ok", done._id)
                        /\ collections' = looked.rows
                   ELSE /\ collections' = created.rows
                        /\ handles' = IF created.status = "ok"
                                      THEN Added(done) ELSE handles
                        /\ last' = Call("__init__",
                                        IF created.status = "ok"
                                        THEN Some(done) ELSE None,
                                        name, CtorArgs(m, model_id),
                                        created.status, done._id)
    /\ UNCHANGED <<embeddings, distance_score, running>>

\* id() on a constructed object: _id is set, line 61 returns it.
Id(h) ==
    /\ Idle
    /\ last' = Call("id", Some(h), h.name, <<>>, "ok", h._id)
    /\ UNCHANGED <<tables, collections, embeddings, handles, distance_score, running>>

Exists(h) ==
    /\ Idle
    /\ last' = Call("exists", Some(h), h.name, <<>>, "ok",
                    exists(h.name, collections))
    /\ UNCHANGED <<tables, collections, embeddings, handles, distance_score, running>>

Count(h) ==
    /\ Idle
    /\ last' = Call("count", Some(h), h.name, <<>>, "ok",
                    count(h.name, collections, embeddings))
    /\ UNCHANGED <<tables, collections, embeddings, handles, distance_score, running>>

\* embed(id, text, metadata, store): model().embed(text) first, then the
\* insert with collection_id = id().
Embed(h, id, a) ==
    /\ Idle
    /\ LET m == model(h)
           args == [id |-> id, text |-> a.text, metadata |-> a.metadata,
                    store |-> a.store]
       IN  IF ~m.ok
           THEN /\ last' = Call("embed", Some(h), h.name, args, "ValueError", None)
                /\ UNCHANGED <<embeddings, handles>>
           ELSE LET row == embedding_row(m.self, id, a.text, a.metadata, a.store,
                                         model_embed(m.model[1], a.text))
                    ins == insert_embedding(embeddings, row)
                IN  /\ Cardinality(ins.rows) <= MaxEmbeddings
                    /\ embeddings' = ins.rows
                    /\ handles' = Replaced(h, m.self)
                    /\ last' = Call("embed", Some(m.self), h.name, args,
                                    ins.status, None)
    /\ UNCHANGED <<tables, collections, distance_score, running>>

\* embed_multi(id_text_map, store) and embed_multi_with_metadata(map).
EmbedMulti(h, id_text_map, store) ==
    /\ Idle
    /\ LET r == embed_multi(h, id_text_map, store, embeddings)
       IN  /\ embeddings' = r.rows
           /\ last' = Call("embed_multi", Some(h), h.name,
                           [id_text_map |-> id_text_map, store |-> store],
                           r.status, None)
    /\ UNCHANGED <<tables, collections, handles, distance_score, running>>

EmbedMultiWithMetadata(h, id_text_metadata_map) ==
    /\ Idle
    /\ LET r == embed_multi_with_metadata(h, id_text_metadata_map, embeddings)
       IN  /\ embeddings' = r.rows
           /\ last' = Call("embed_multi_with_metadata", Some(h), h.name,
                           [id_text_metadata_map |-> id_text_metadata_map],
                           r.status, None)
    /\ UNCHANGED <<tables, collections, handles, distance_score, running>>

\* similar_by_vector(vector, number, skip_id): register distance_score for
\* this vector (replace=True), then run the query.
SimilarByVector(h, vector, number, skip_id) ==
    /\ Idle
    /\ distance_score' = Some(vector)
    /\ \E r \in query(embeddings, h._id[1], skip_id, number, vector) :
          last' = Call("similar_by_vector", Some(h), h.name,
                       [vector |-> vector, number |-> number, skip_id |-> skip_id],
                       r.status, r.value)
    /\ UNCHANGED <<tables, collections, embeddings, handles, running>>

\* Variant: similar_by_id removes the record it starts from.
SimilarByIdTaking(h, id, number) ==
    /\ Idle
    /\ LET found == matches(embeddings, h._id[1], id)
       IN  /\ embeddings' = embeddings \ found
           /\ last' = Call("similar_by_id", Some(h), h.name,
                           [id |-> id, number |-> number],
                           IF found = {} THEN "ValueError" ELSE "ok", <<>>)
    /\ UNCHANGED <<tables, collections, handles, distance_score, running>>

\* similar_by_id(id, number): ValueError when the record is absent, else
\* similar_by_vector(decode(its embedding), number, skip_id=id).
SimilarById(h, id, number) ==
    /\ Idle
    /\ LET found == matches(embeddings, h._id[1], id)
           vector == decode((CHOOSE e \in found : TRUE).embedding)
           args == [id |-> id, number |-> number]
       IN  IF found = {}
           THEN /\ last' = Call("similar_by_id", Some(h), h.name, args,
                                "ValueError", <<>>)
                /\ UNCHANGED distance_score
           ELSE /\ distance_score' = Some(vector)
                /\ \E r \in query(embeddings, h._id[1], Some(id), number, vector) :
                      last' = Call("similar_by_id", Some(h), h.name, args,
                                   r.status, r.value)
    /\ UNCHANGED <<tables, collections, embeddings, handles, running>>

\* similar(text, number): similar_by_vector(model().embed(text), number).
Similar(h, text, number) ==
    /\ Idle
    /\ LET m == model(h)
           vector == model_embed(m.model[1], text)
           args == [text |-> text, number |-> number]
       IN  IF ~m.ok
           THEN /\ last' = Call("similar", Some(h), h.name, args, "ValueError", <<>>)
                /\ UNCHANGED <<handles, distance_score>>
           ELSE /\ handles' = Replaced(h, m.self)
                /\ distance_score' = Some(vector)
                /\ \E r \in query(embeddings, h._id[1], None, number, vector) :
                      last' = Call("similar", Some(m.self), h.name, args,
                                   r.status, r.value)
    /\ UNCHANGED <<tables, collections, embeddings, running>>

\* The call returns (or raises) to its caller, which may then make another.
Return ==
    /\ ~Idle
    /\ last' = NoCall
    /\ UNCHANGED <<tables, collections, embeddings, handles, distance_score, running>>

\* One call at a time: a caller makes its next call once the last returned.
Next ==
    \/ Idle /\ \E c \in CtorCalls : Construct(c.name, c.model, c.model_id)
    \/ Idle /\ \E h \in Objects : Id(h)
    \/ Idle /\ \E h \in Objects : Exists(h)
    \/ Idle /\ \E h \in Objects : Count(h)
    \/ Idle /\ \E h \in Objects, i \in RecordIds, a \in EmbedArgs : Embed(h, i, a)
    \/ Idle /\ \E h \in Objects, c \in EmbedMultiCalls :
          EmbedMulti(h, c.id_text_map, c.store)
    \/ Idle /\ \E h \in Objects, c \in EmbedMultiWithMetadataCalls :
          EmbedMultiWithMetadata(h, c.id_text_metadata_map)
    \/ Idle /\ \E h \in Objects, c \in SearchCalls :
          SimilarByVector(h, c.vector, c.number, c.skip_id)
    \/ Idle /\ \E h \in Objects, i \in RecordIds, n \in Numbers : SimilarById(h, i, n)
    \/ Idle /\ \E h \in Objects, t \in Texts, n \in Numbers : Similar(h, t, n)
    \/ Return

Spec == Init /\ [][Next]_vars

\* ------------------------------------------- constructions that interleave
\* Two callers construct objects on the same database at once: each runs
\* __init__ up to the lookup of id() (lines 28-35, 61-70) as one step and
\* the creation (lines 71-82) as another.
ConstructLookup(name, m, model_id) ==
    /\ BagCardinality(handles) < MaxHandles
    /\ IF model_id_mismatch(m, model_id)
       THEN /\ last' = Call("__init__", None, name, CtorArgs(m, model_id),
                            "ValueError", None)
            /\ UNCHANGED <<tables, collections, handles>>
       ELSE LET looked == id_lookup(new_collection(name, m, model_id), collections)
                self == [looked.self EXCEPT
                            !.pc = IF looked.found THEN "ready" ELSE "create"]
            IN  /\ tables' = TRUE
                /\ collections' = looked.rows
                /\ handles' = Added(self)
                /\ last' = Call("__init__", Some(self), name,
                                CtorArgs(m, model_id),
                                IF looked.found THEN "ok" ELSE "running", self._id)
    /\ UNCHANGED <<embeddings, distance_score, running>>

ConstructCreate(h) ==
    /\ h.pc = "create"
    /\ LET created == id_create(h, collections)
           done == [created.self EXCEPT !.pc = "ready"]
       IN  /\ collections' = created.rows
           /\ handles' = IF created.status = "ok" THEN Replaced(h, done)
                         ELSE handles (-) SetToBag({h})
           /\ last' = Call("__init__",
                           IF created.status = "ok" THEN Some(done) ELSE None,
                           h.name, CtorArgs(h._model, h._model_id),
                           created.status, done._id)
    /\ UNCHANGED <<tables, embeddings, distance_score, running>>

NextRace ==
    \/ \E c \in CtorCalls : ConstructLookup(c.name, c.model, c.model_id)
    \/ \E h \in BagToSet(handles) : ConstructCreate(h)

SpecRace == Init /\ [][NextRace]_vars

\* ------------------------------------------------- searches that overlap
\* Number of similar_by_vector calls between their two steps.
MaxRunning == 2
\* Two query vectors that score the stored vectors differently.
OverlapVectors == { <<1, 0>>, <<3, 4>> }

\* similar_by_vector, lines 175-179: the closure over this call's vector is
\* registered on the connection under the name distance_score, replacing
\* the function registered before.
SimilarByVectorRegister(h, vector, number, skip_id) ==
    /\ BagCardinality(running) < MaxRunning
    /\ distance_score' = Some(vector)
    /\ running' = running (+) SetToBag({[self |-> h, vector |-> vector,
                                         number |-> number, skip_id |-> skip_id]})
    /\ UNCHANGED <<tables, collections, embeddings, handles, last>>

\* similar_by_vector, lines 181-202: the query runs; its distance_score(...)
\* is the function the connection holds by then.
SimilarByVectorQuery(c) ==
    /\ running' = running (-) SetToBag({c})
    /\ \E r \in query(embeddings, c.self._id[1], c.skip_id, c.number,
                       distance_score[1]) :
          last' = Call("similar_by_vector", Some(c.self), c.self.name,
                       [vector |-> c.vector, number |-> c.number,
                        skip_id |-> c.skip_id],
                       r.status, r.value)
    /\ UNCHANGED <<tables, collections, embeddings, handles, distance_score>>

\* Callers of one collection whose similar_by_vector calls interleave on the
\* shared connection; constructions and embed calls run one at a time.
NextOverlap ==
    \/ Idle /\ Construct("X", Some(CallerModel), None)
    \/ Idle /\ \E h \in Objects, i \in RecordIds, a \in EmbedArgs : Embed(h, i, a)
    \/ \E h \in Objects, v \in OverlapVectors :
          SimilarByVectorRegister(h, v, -1, None)
    \/ \E c \in BagToSet(running) : SimilarByVectorQuery(c)
    \/ Return

SpecOverlap == Init /\ [][NextOverlap]_vars

\* ------------------------------------------------------------------ claims
\* The model identifier an object answers for: its _model_id, else the
\* model_id of its bound model.
resolved_model_id(h) ==
    IF h._model_id # None THEN h._model_id[1] ELSE h._model[1].model_id
RowOf(name) == CHOOSE r \in collections : r.name = name
IdOf(h) == h._id[1]

\* C1. Identity stability: any two objects constructed for the same name
\* have the same id and the same resolved model_id, whatever model or
\* model_id each was constructed with.
C1_IdentityStability ==
    \A h1, h2 \in Objects :
        h1.name = h2.name =>
            /\ h1._id = h2._id
            /\ resolved_model_id(h1) = resolved_model_id(h2)

\* C2. Self-exclusion: similar_by_id(X, number) never returns X among the
\* ids of its results, for every stored id X, the empty string included.
C2_SelfExclusion ==
    (last.op = "similar_by_id" /\ last.status = "ok") =>
        \A i \in 1..Len(last.value) : last.value[i][1] # last.args.id

\* C5. Every constructed object agrees with the collections row of its name
\* on id and on model_id.
C5_HandleAgreesWithRow ==
    \A h \in Objects :
        /\ exists(h.name, collections)
        /\ IdOf(h) = RowOf(h.name).id
        /\ resolved_model_id(h) = RowOf(h.name).model

\* The step is a call of embed; the record it names was held before.
EmbedStep == last'.op = "embed"
HeldBefore ==
    \E e \in embeddings :
        e.collection_id = IdOf(last'.self[1]) /\ e.id = last'.args.id

\* C3 as stated. Uniqueness: embed(id, ...) on a collection that already
\* holds a record with that id fails with a uniqueness violation and leaves
\* every row unchanged.
C3_DuplicateFailsUnique ==
    [][(EmbedStep /\ HeldBefore) =>
          /\ last'.status = "IntegrityError"
          /\ UNCHANGED <<collections, embeddings>>]_vars

\* C3 amended. embed(id, ...) on a collection that already holds a record
\* with that id fails and leaves every row unchanged: with a uniqueness
\* violation when the object's model resolves, with the ValueError of
\* model() otherwise. When the collection does not hold the id and the model
\* resolves, the call adds exactly its own row, whatever other collections
\* hold.
C3_DuplicateFails ==
    [][EmbedStep =>
          /\ HeldBefore =>
                /\ last'.status = IF model(last'.self[1]).ok
                                   THEN "IntegrityError" ELSE "ValueError"
                /\ UNCHANGED <<collections, embeddings>>
          /\ (~HeldBefore /\ model(last'.self[1]).ok) =>
                /\ last'.status = "ok"
                /\ embeddings \subseteq embeddings'
                /\ \E e \in embeddings' \ embeddings :
                      /\ embeddings' = embeddings \cup {e}
                      /\ e.collection_id = IdOf(last'.self[1])
                      /\ e.id = last'.args.id]_vars

\* A duplicate embed was refused while another collection holds the same id.
C3_Witness ==
    /\ last.op = "embed"
    /\ last.status = "IntegrityError"
    /\ \E e \in embeddings :
          e.id = last.args.id /\ e.collection_id # IdOf(last.self[1])

\* C4. At most one collections row exists per name, also when the lookup
\* and the insert of two constructions for the same name interleave.
C4_OneRowPerName ==
    \A r1, r2 \in collections : r1.name = r2.name => r1 = r2

\* Two constructions both missed the row; the second insert was refused.
C4_Witness ==
    /\ last.op = "__init__"
    /\ last.status = "IntegrityError"
    /\ exists(last.name, collections)

\* C6. A collections row's model is fixed at creation: every row stays as it
\* is in every step, and constructing an object for an existing name leaves
\* the table unchanged.
C6_StoredModelFixed ==
    [][/\ \A r \in collections : r \in collections'
       /\ (last'.op = "__init__" /\ exists(last'.name, collections)) =>
             collections' = collections]_vars

\* An object bound to another model than the stored one has embedded a text.
C6_Witness ==
    /\ last.op = "embed"
    /\ last.status = "ok"
    /\ last.self[1]._model[1].model_id # RowOf(last.name).model

\* The result is ordered by non-increasing score.
Descending(value) ==
    \A i \in 1..Len(value) : i < Len(value) => value[i][2] >= value[i + 1][2]

\* C7 as stated. similar_by_vector returns at most `number` pairs, ordered
\* by non-increasing score, for every integer number.
C7_AtMostNumber ==
    (last.op = "similar_by_vector" /\ last.status = "ok") =>
        /\ Len(last.value) <= last.args.number
        /\ Descending(last.value)

\* C7 amended. A call of similar_by_vector that returns yields pairs ordered
\* by non-increasing score; at most `number` of them when number >= 0, and
\* all records the where clause selects when number is negative.
C7_LimitAndOrder ==
    (last.op = "similar_by_vector" /\ last.status = "ok") =>
        /\ Descending(last.value)
        /\ last.args.number >= 0 => Len(last.value) <= last.args.number
        /\ last.args.number < 0 =>
              Len(last.value) = Cardinality(where_rows(embeddings,
                  IdOf(last.self[1]), last.args.skip_id))

\* The limit cut the result short of the records selected.
C7_Witness ==
    /\ last.op = "similar_by_vector"
    /\ last.status = "ok"
    /\ last.args.number = 1
    /\ Len(last.value) = 1
    /\ Cardinality(where_rows(embeddings, IdOf(last.self[1]),
                              last.args.skip_id)) = 2

\* C8. similar_by_id(id, number) raises ValueError whenever this object's
\* collection holds no record with that id, also when another collection
\* does, and the failed call leaves the stored rows unchanged.
C8_NotFound ==
    [][(/\ last'.op = "similar_by_id"
        /\ \A e \in embeddings :
              ~(e.collection_id = IdOf(last'.self[1]) /\ e.id = last'.args.id)) =>
          /\ last'.status = "ValueError"
          /\ UNCHANGED <<tables, collections, embeddings>>]_vars

\* similar_by_id failed for an id that another collection holds.
C8_Witness ==
    /\ last.op = "similar_by_id"
    /\ last.status = "ValueError"
    /\ \E e \in embeddings : e.id = last.args.id

\* C9. exists() returns true exactly when a collections row with the
\* object's name is present, and the call changes no table and no row.
C9_ExistsPure ==
    [][last'.op = "exists" =>
          /\ last'.status = "ok"
          /\ last'.value = (\E r \in collections : r.name = last'.name)
          /\ UNCHANGED <<tables, collections, embeddings>>]_vars

\* exists() was called and answered for a name whose row is present.
C9_Witness ==
    /\ last.op = "exists"
    /\ last.value = TRUE
    /\ \E r \in collections : r.name = last.name

\* The records of the collection named `name`.
RecordsOf(name, rows, embs) ==
    {e \in embs : \E r \in rows : r.name = name /\ r.id = e.collection_id}

\* C10. count() is the number of records of the collection with the
\* object's name: 0 when no row has the name, one more after each successful
\* embed on that collection, and unchanged by every other step.
C10_CountIsRecords ==
    [][/\ last'.op = "count" =>
             /\ last'.status = "ok"
             /\ last'.value = Cardinality(RecordsOf(last'.name, collections, embeddings))
       /\ \A n \in Names :
             /\ ~(\E r \in collections' : r.name = n) =>
                   count(n, collections', embeddings') = 0
             /\ count(n, collections', embeddings') =
                   count(n, collections, embeddings)
                   + (IF last'.op = "embed" /\ last'.status = "ok" /\ last'.name = n
                      THEN 1 ELSE 0)]_vars

\* count() returned 1 while the other collection holds a record too.
C10_Witness ==
    /\ last.op = "count"
    /\ last.value = 1
    /\ Cardinality(embeddings) = 2

\* C11. embed_multi and embed_multi_with_metadata always raise
\* NotImplementedError, whatever their argument and the state, and write no
\* embeddings row and no collections row.
C11_MultiStep == last'.op \in {"embed_multi", "embed_multi_with_metadata"}
C11_MultiNotImplemented ==
    [][C11_MultiStep =>
        /\ last'.status = "NotImplementedError"
        /\ embeddings' = embeddings
        /\ collections' = collections]_vars
\* embed_multi was called with a non-empty map on a table holding records.
C11_Witness ==
    /\ last.op = "embed_multi"
    /\ last.args.id_text_map # <<>>
    /\ last.status = "NotImplementedError"
    /\ embeddings # {}

\* C12. A construction given both a model and a model_id whose identifiers
\* differ fails with ValueError before any store access: no schema is
\* created, no collections row is read or inserted, no object results.
C12_MismatchStep ==
    /\ last'.op = "__init__"
    /\ last'.args.model # None
    /\ last'.args.model_id # None
    /\ last'.args.model[1].model_id # last'.args.model_id[1]
C12_MismatchFailsFast ==
    [][C12_MismatchStep =>
        /\ last'.status = "ValueError"
        /\ last'.self = None
        /\ UNCHANGED <<tables, collections, embeddings, handles>>]_vars

\* C13. A construction for a name that has no collections row, given neither
\* a model nor a model_id, fails with ValueError: no object results and the
\* collections table is left without a row for that name.
C13_UnboundStep ==
    /\ last'.op = "__init__"
    /\ last'.args = CtorArgs(None, None)
    /\ ~exists(last'.name, collections)
C13_NoModelNoRow ==
    [][C13_UnboundStep =>
        /\ last'.status = "ValueError"
        /\ last'.self = None
        /\ collections' = collections
        /\ handles' = handles]_vars
\* A construction without model and model_id failed for a name that has no
\* row, in a database that holds another collection.
C13_Witness ==
    /\ last.op = "__init__"
    /\ last.args = CtorArgs(None, None)
    /\ last.status = "ValueError"
    /\ collections # {}
    /\ ~exists(last.name, collections)

\* C14. Overlapping searches are safe: a similar_by_vector call whose steps
\* interleave with another call's returns a result it could return when run
\* alone, every score computed against its own query vector.
C14_QueryStep == last'.op = "similar_by_vector" /\ running' # running
C14_OverlapSafe ==
    [][C14_QueryStep =>
        [status |-> last'.status, value |-> last'.value]
            \in query(embeddings, IdOf(last'.self[1]), last'.args.skip_id,
                      last'.args.number, last'.args.vector)]_vars

\* C15. model() is called on the creation path only: a construction for a
\* name whose collections row exists never resolves the model. It fails
\* only on the check of line 30, it leaves _model as given, and with no model
\* bound it succeeds, also when the registry does not know the stored model.
C15_LookupStep == last'.op = "__init__" /\ exists(last'.name, collections)
C15_ModelOnlyOnCreation ==
    [][C15_LookupStep =>
        /\ collections' = collections
        /\ last'.args.model = None => last'.status = "ok"
        /\ last'.status = "ok" => last'.self[1]._model = last'.args.model
        /\ last'.status # "ok" =>
              model_id_mismatch(last'.args.model, last'.args.model_id)]_vars
\* A construction without model succeeded for a row whose model the
\* registry does not know.
C15_Witness ==
    /\ last.op = "__init__"
    /\ last.status = "ok"
    /\ last.args = CtorArgs(None, None)
    /\ last.self[1]._model = None
    /\ last.self[1]._model_id # None
    /\ get_embedding_model(last.self[1]._model_id) = None
    /\ RowOf(last.name).model \notin Registered

\* C16. Embedding records are never changed or deleted: a record held for
\* a (collection_id, id) is held with the same vector, content and metadata
\* after every step, and no second record of that key appears.
C16_RecordsKept ==
    [][/\ embeddings \subseteq embeddings'
       /\ \A e, f \in embeddings' :
             (e.collection_id = f.collection_id /\ e.id = f.id) => e = f]_vars
\* A refused embed for a held key whose record differs from the one the
\* call would have written; both records are still there.
C16_Witness ==
    /\ last.op = "embed"
    /\ last.status = "IntegrityError"
    /\ Cardinality(embeddings) = 2
    /\ \E e \in embeddings :
          /\ e.collection_id = IdOf(last.self[1])
          /\ e.id = last.args.id
          /\ e.content # (IF last.args.store THEN Some(last.args.text) ELSE None)

\* C17. A successful embed inserts exactly one record, for the object's
\* collection and the given id: its content is the text when store is true
\* and null when it is false; its metadata is the serialized dict when that
\* is non-empty and null when metadata is None or empty.
C17_Inserted(row) ==
    /\ row \notin embeddings
    /\ embeddings' = embeddings \cup {row}
    /\ row.collection_id = IdOf(last'.self[1])
    /\ row.id = last'.args.id
    /\ row.content = IF last'.args.store THEN Some(last'.args.text) ELSE None
    /\ row.metadata = CASE last'.args.metadata = None -> None
                         [] last'.args.metadata = Some(EmptyDict) -> None
                         [] OTHER -> Some(json_dumps(last'.args.metadata[1]))
C17_EmbedInsertsOne ==
    [][(EmbedStep /\ last'.status = "ok") =>
          \E row \in embeddings' : C17_Inserted(row)]_vars
\* embed succeeded with an empty dict and store false, next to a record
\* stored with its text and metadata.
C17_Witness ==
    /\ last.op = "embed"
    /\ last.status = "ok"
    /\ last.args.metadata = Some(EmptyDict)
    /\ ~last.args.store
    /\ \E e \in embeddings :
          /\ e.collection_id = IdOf(last.self[1])
          /\ e.id = last.args.id
          /\ e.content = None
          /\ e.metadata = None
    /\ \E e \in embeddings : e.content = Some("t2") /\ e.metadata # None

\* C18. Search is scoped to the object's collection: the ids returned by
\* similar_by_vector, similar_by_id and similar are ids of records of that
\* collection, each at most once, whatever other collections hold under
\* equal ids. On a collection without records similar_by_vector returns the
\* empty list without error, and so does similar once its model resolves;
\* similar_by_id has no record to start from.
SearchOps == {"similar_by_vector", "similar_by_id", "similar"}
OwnRecords(h) == {e \in embeddings : e.collection_id = IdOf(h)}
C19_ConstructedExists ==
    /\ \A h \in Objects : exists(h.name, collections)
    /\ last.op = "exists" => last.value = TRUE
\* exists() answered on an object that cannot resolve its model, after
\* records were embedded.
C19_Witness ==
    /\ last.op = "exists"
    /\ last.value = TRUE
    /\ last.self[1]._model = None
    /\ get_embedding_model(last.self[1]._model_id) = None
    /\ embeddings # {}

\* C20. similar_by_vector, similar_by_id, similar and count on a constructed
\* object leave the rows of collections and of embeddings as they were,
\* whether the call returns a result or fails.
C20_QueryStep == last'.op \in SearchOps \cup {"count"}
C20_QueriesReadOnly ==
    [][C20_QueryStep => UNCHANGED <<tables, collections, embeddings>>]_vars
\* A search failed on a database of two collections and two records.
C20_Witness ==
    /\ last.op \in SearchOps
    /\ last.status \in {"OperationalError", "ValueError"}
    /\ Cardinality(embeddings) = 2
    /\ Cardinality(collections) = 2

====
